---- MODULE Spec2Model ----
(***************************************************************************)
(* Model of dynamics_solver::DynamicsSolver                                *)
(* (src/moveit_core/dynamics_solver/src/dynamics_solver.cpp).              *)
(*                                                                         *)
(* The solver's fields are the state; Init is the state the constructor    *)
(* leaves for a robot model and gravity vector drawn from bounded sets;    *)
(* every public query is one action.  The KDL inverse-dynamics engine, the *)
(* URDF/KDL chain builder and the RobotState frame provider are external   *)
(* libraries: they are modelled as deterministic functions (the engine     *)
(* affine in the tip wrench).                                              *)
(*                                                                         *)
(* A double is a record [k, n, d]: k = "fin" is the rational n/d in lowest *)
(* terms (d > 0), k = "inf" is n * infinity (n = 1 or -1), k = "nan" is    *)
(* not-a-number.  The operations follow IEEE-754 for the special values;   *)
(* finite results are exact (rounding is not modelled) and a signed zero   *)
(* is read as +0.                                                          *)
(***************************************************************************)
EXTENDS Integers, Sequences, FiniteSets, TLC

\* Largest number of joint models in the planning group.
MaxGroupLen == 3

\* std::numeric_limits<double>::max(): larger than every other finite value.
DblMaxNum == 1000000

NULL == "NULL"

\* The element of a one-element set: names a value that is computed once.
The(S) == CHOOSE x \in S : TRUE

---------------------------------------------------------------------------
(* IEEE-754 double arithmetic on the representation above.                 *)

Abs(i) == IF i < 0 THEN -i ELSE i

Sign(i) == IF i < 0 THEN -1 ELSE IF i > 0 THEN 1 ELSE 0

RECURSIVE Gcd(_, _)
Gcd(a, b) == IF b = 0 THEN a ELSE Gcd(b, a % b)

NaN == [k |-> "nan", n |-> 0, d |-> 1]

Inf(s) == [k |-> "inf", n |-> s, d |-> 1]

\* The double n/d (d > 0, in lowest terms): infinity beyond DBL_MAX.
Rounded(n, d) ==
    IF Abs(n) > DblMaxNum * d THEN Inf(Sign(n))
    ELSE [k |-> "fin", n |-> n, d |-> d]

\* n/d with the common divisor g taken out and the sign in the numerator.
Reduced(n, d, g) == Rounded((Sign(d) * n) \div g, Abs(d) \div g)

\* The double n/d (d # 0).
Fin(n, d) ==
    IF d = 1 THEN Rounded(n, 1) ELSE Reduced(n, d, Gcd(Abs(n), Abs(d)))

Dbl(i) == Fin(i, 1)

DBL_MAX == Dbl(DblMaxNum)

IsFinite(a) == a.k = "fin"

IsZero(a) == a.k = "fin" /\ a.n = 0

\* The sign of a non-NaN double: -1, 0 or 1.
DSign(a) == Sign(a.n)

DNeg(a) == IF a.k = "nan" THEN NaN ELSE [a EXCEPT !.n = -a.n]

DAdd(a, b) ==
    IF a.k = "nan" \/ b.k = "nan" THEN NaN
    ELSE IF a.k = "inf" /\ b.k = "inf" THEN (IF a.n = b.n THEN a ELSE NaN)
    ELSE IF a.k = "inf" THEN a
    ELSE IF b.k = "inf" THEN b
    ELSE Fin(a.n * b.d + b.n * a.d, a.d * b.d)

DSub(a, b) == DAdd(a, DNeg(b))

DMul(a, b) ==
    IF a.k = "nan" \/ b.k = "nan" THEN NaN
    ELSE IF a.k = "inf" \/ b.k = "inf"
         THEN (IF DSign(a) * DSign(b) = 0 THEN NaN ELSE Inf(DSign(a) * DSign(b)))
    ELSE Fin(a.n * b.n, a.d * b.d)

DDiv(a, b) ==
    IF a.k = "nan" \/ b.k = "nan" THEN NaN
    ELSE IF a.k = "inf" /\ b.k = "inf" THEN NaN
    ELSE IF a.k = "inf" THEN Inf(IF DSign(b) < 0 THEN -a.n ELSE a.n)
    ELSE IF b.k = "inf" THEN Dbl(0)
    ELSE IF b.n = 0 THEN (IF a.n = 0 THEN NaN ELSE Inf(Sign(a.n)))
    ELSE Fin(a.n * b.d, a.d * b.n)

\* a < b; every comparison with NaN is false.
DLess(a, b) ==
    IF a.k = "nan" \/ b.k = "nan" THEN FALSE
    ELSE IF a.k = "inf" THEN a.n < 0 /\ ~(b.k = "inf" /\ b.n < 0)
    ELSE IF b.k = "inf" THEN b.n > 0
    ELSE a.n * b.d < b.n * a.d

\* a >= b
DGeq(a, b) == a.k # "nan" /\ b.k # "nan" /\ ~DLess(a, b)

\* fabs
Fabs(a) == IF a.k = "nan" THEN NaN ELSE [a EXCEPT !.n = Abs(a.n)]

\* std::max<double>(a, b) is (a < b) ? b : a
DMax(a, b) == IF DLess(a, b) THEN b ELSE a

---------------------------------------------------------------------------
(* Vectors, wrenches and rotations.                                        *)

\* geometry_msgs::msg::Vector3 with integer components
Vec3(x, y, z) == <<Dbl(x), Dbl(y), Dbl(z)>>

\* A default-constructed geometry_msgs::msg::Wrench: all components zero.
ZeroWrench == [force |-> Vec3(0, 0, 0), torque |-> Vec3(0, 0, 0)]

Zeros(n) == [i \in 1..n |-> 0]

RECURSIVE SumSeq(_)
SumSeq(s) == IF s = <<>> THEN 0 ELSE Head(s) + SumSeq(Tail(s))

\* The rotation by t quarter turns about the x axis (a 3x3 matrix, by rows).
RotX(t) ==
    LET c == <<1, 0, -1, 0>>[(t % 4) + 1]
        s == <<0, 1, 0, -1>>[(t % 4) + 1]
    IN  <<<<1, 0, 0>>, <<0, c, -s>>, <<0, s, c>>>>

\* Eigen::Isometry3d::inverse() of a rotation: the transpose.
Inverse(m) == [i \in 1..3 |-> [j \in 1..3 |-> m[j][i]]]

\* Eigen operator* of two transforms (linear parts).
Compose(a, b) ==
    [i \in 1..3 |-> [j \in 1..3 |->
        a[i][1] * b[1][j] + a[i][2] * b[2][j] + a[i][3] * b[3][j]]]

\* Dot product of an integer row with a vector of doubles: the sum of the
\* three products, taken in one step when every component is finite.
Dot(row, v) ==
    IF v[1].k = "fin" /\ v[2].k = "fin" /\ v[3].k = "fin"
    THEN Fin(row[1] * v[1].n * v[2].d * v[3].d
             + row[2] * v[2].n * v[1].d * v[3].d
             + row[3] * v[3].n * v[1].d * v[2].d,
             v[1].d * v[2].d * v[3].d)
    ELSE DAdd(DAdd(DMul(Dbl(row[1]), v[1]), DMul(Dbl(row[2]), v[2])),
              DMul(Dbl(row[3]), v[3]))

\* transformVector: p = transform.linear() * p
transformVector(transform, vector) ==
    [i \in 1..3 |-> Dot(transform[i], vector)]

---------------------------------------------------------------------------
(* The robot model handed to the constructor.                              *)

\* urdf efforts declared by the joints that have <limit>
Efforts == {1, 3}

\* A joint of the group: fixed or revolute, with or without urdf limits.
JointKinds ==
    {[type |-> "fixed", limits |-> <<>>], [type |-> "revolute", limits |-> <<>>]}
    \cup {[type |-> "revolute", limits |-> <<e>>] : e \in Efforts}

JointLists == UNION {[1..n -> JointKinds] : n \in 1..MaxGroupLen}

\* What can be wrong with the requested group or its chain.
Defects ==
    {"none", "unknown_group", "not_chain", "mimic", "no_parent", "no_tree",
     "no_chain"}

\* How the inverse-dynamics engine fails: never, at the configurations whose
\* first angle is 1, or whenever the tip segment carries a wrench.
Faults == {"none", "config", "loaded"}

GravityVectors == {<<0, 0, 0>>, <<0, 0, -1>>}

RobotModel(defect, joints, fault) ==
    [group |-> IF defect = "unknown_group" THEN <<>>
               ELSE <<[name |-> "arm",
                       isChain |-> defect # "not_chain",
                       mimic |-> defect = "mimic",
                       rootHasParent |-> defect # "no_parent",
                       joints |-> joints]>>,
     treeOk |-> defect # "no_tree",
     chainOk |-> defect # "no_chain",
     fault |-> fault]

\* The robot models the constructor is run on: every joint list for a sound
\* group, and every defect on the groups of one revolute joint.
RobotModels ==
    {RobotModel("none", js, f) : js \in JointLists, f \in Faults}
    \cup {RobotModel(d, <<[type |-> "revolute", limits |-> <<e>>]>>, "none") :
            d \in Defects \ {"none"}, e \in Efforts}

\* The movable joints of a joint list, in order (what KDL counts as joints).
Movable(joints) == SelectSeq(joints, LAMBDA j : j.type # "fixed")

\* The declared effort of a joint as a double, 0.0 without <limit>.
EffortOf(j) == IF j.limits # <<>> THEN Dbl(j.limits[1]) ELSE Dbl(0)

\* KDL::Vector::Norm for vectors along one axis or of integer length.
Norm(v) ==
    LET s == v[1] * v[1] + v[2] * v[2] + v[3] * v[3]
    IN  Dbl(CHOOSE r \in 0..s : r * r = s)

---------------------------------------------------------------------------
(* The solver.                                                             *)

VARIABLES
    robot_model_,        \* the model given to the constructor
    joint_model_group_,  \* the group's name, NULL for an invalid solver
    kdl_chain_,          \* the chain's segments (one per group joint)
    num_joints_,         \* kdl_chain_.getNrOfJoints()
    num_segments_,       \* kdl_chain_.getNrOfSegments()
    state_,              \* <<>> or <<the cached RobotState>>
    max_torques_,        \* the torque limits, a sequence of doubles
    gravity_,            \* the norm of the gravity vector
    chain_id_solver_,    \* <<>> or <<the engine: its chain, gravity, fault>>
    call,                \* the latest query: its name, its arguments and
                         \* the cached robot state it was called in
    ret,                 \* what the latest query returned
    torques,             \* the caller's torque buffer after the latest query
    payload,             \* the caller's payload variable after it
    joint_saturated,     \* the caller's saturated-joint variable after it
    engine_calls,        \* CartToJnt invocations made by the latest query
    limits               \* <<>> or <<what the latest getMaxTorques() returned>>

solver ==
    <<robot_model_, joint_model_group_, kdl_chain_, num_joints_, num_segments_,
      max_torques_, gravity_, chain_id_solver_>>

vars ==
    <<robot_model_, joint_model_group_, kdl_chain_, num_joints_, num_segments_,
      state_, max_torques_, gravity_, chain_id_solver_, call, ret, torques,
      payload, joint_saturated, engine_calls, limits>>

\* The max_torques_ the constructor's loop over getJointModelNames() builds.
BuildMaxTorques(joints) == [i \in 1..Len(joints) |-> EffortOf(joints[i])]

\* std::make_shared<RobotState>(robot_model_) and setToDefaultValues(): the
\* state of a group of n movable joints with every position 0.
DefaultState(n) == <<[positions |-> Zeros(n)]>>

\* The fields after a rejecting return of the constructor.  uninit is what
\* num_joints_, num_segments_ and gravity_, never assigned, happen to hold.
RejectedSolver(robot_model, uninit) ==
    [robot_model_ |-> robot_model, joint_model_group_ |-> NULL,
     kdl_chain_ |-> <<>>, num_joints_ |-> uninit, num_segments_ |-> uninit,
     state_ |-> <<>>, max_torques_ |-> <<>>, gravity_ |-> Dbl(uninit),
     chain_id_solver_ |-> <<>>]

\* The fields after the constructor ran to its end (lines 105-151).
BuiltSolver(robot_model, group, gravity_vector) ==
    [robot_model_ |-> robot_model,
     joint_model_group_ |-> group.name,
     kdl_chain_ |-> group.joints,
     num_joints_ |-> Len(Movable(group.joints)),
     num_segments_ |-> Len(group.joints),
     state_ |-> DefaultState(Len(Movable(group.joints))),
     max_torques_ |-> BuildMaxTorques(group.joints),
     gravity_ |-> Norm(gravity_vector),
     chain_id_solver_ |-> <<[chain |-> group.joints,
                             gravity |-> gravity_vector,
                             fault |-> robot_model.fault]>>]

\* A constructor without the mimic-joint test of lines 90-95.
DynamicsSolverKeepingMimic(robot_model, gravity_vector, uninit) ==
    IF robot_model.group = <<>> THEN RejectedSolver(robot_model, uninit)
    ELSE IF ~robot_model.group[1].isChain
    THEN RejectedSolver(robot_model, uninit)
    ELSE IF ~robot_model.group[1].rootHasParent
    THEN RejectedSolver(robot_model, uninit)
    ELSE IF ~robot_model.treeOk THEN RejectedSolver(robot_model, uninit)
    ELSE IF ~robot_model.chainOk THEN RejectedSolver(robot_model, uninit)
    ELSE BuiltSolver(robot_model, robot_model.group[1], gravity_vector)

\* DynamicsSolver::DynamicsSolver
DynamicsSolver(robot_model, gravity_vector, uninit) ==
    IF robot_model.group = <<>> THEN RejectedSolver(robot_model, uninit)
    ELSE IF ~robot_model.group[1].isChain
    THEN RejectedSolver(robot_model, uninit)
    ELSE IF robot_model.group[1].mimic
    THEN RejectedSolver(robot_model, uninit)
    ELSE IF ~robot_model.group[1].rootHasParent
    THEN RejectedSolver(robot_model, uninit)
    ELSE IF ~robot_model.treeOk THEN RejectedSolver(robot_model, uninit)
    ELSE IF ~robot_model.chainOk THEN RejectedSolver(robot_model, uninit)
    ELSE BuiltSolver(robot_model, robot_model.group[1], gravity_vector)

---------------------------------------------------------------------------
(* The external collaborators the queries use.                             *)

\* KDL::ChainIdSolver_RNE::CartToJnt: a negative status on a fault, else the
\* torques, affine in the wrench on the tip segment.  Joint i of nj carries
\* the nj - i + 1 links beyond it; a tip force acts on it through its z
\* component and a tip torque through its x component.
CartToJnt(engine, q, q_dot, q_dotdot, f_ext) ==
    LET nj == Len(q)
        tip == f_ext[Len(f_ext)]
        loaded == \E c \in 1..3 : ~IsZero(tip.force[c]) \/ ~IsZero(tip.torque[c])
        fails == \/ engine.fault = "config" /\ nj > 0 /\ q[1] = 1
                 \/ engine.fault = "loaded" /\ loaded
        tau(i) ==
            DAdd(Dbl((-engine.gravity[3]) * (nj - i + 1 - q[i])
                     + q_dot[i] + q_dotdot[i]),
                 DAdd(Dot(<<0, 0, nj - i + 1>>, tip.force), tip.torque[1]))
    IN  [status |-> IF fails THEN -1 ELSE 0,
         torques |-> [i \in 1..nj |-> tau(i)]]

base_name_ == "base"

tip_name_ == "tip"

\* RobotState::setJointGroupPositions(group, positions)
setJointGroupPositions(st, positions) ==
    <<[st[1] EXCEPT !.positions = positions]>>

\* RobotState::getFrameTransform: the base link is the reference frame and
\* every joint turns the tip about x by its position (in quarter turns).
getFrameTransform(st, name) ==
    IF name = base_name_ THEN RotX(0) ELSE RotX(SumSeq(st[1].positions))

---------------------------------------------------------------------------
(* The queries.  Each is an operator from the arguments (output arguments  *)
(* with the values the caller's variables hold) to the returned flag, the  *)
(* output arguments afterwards, the number of CartToJnt calls made, and -- *)
(* for the payload queries -- the cached robot state afterwards.           *)

\* Length tests that hold the torque buffer against the segment count.
SizesMatchBySegments(joint_angles, joint_velocities, joint_accelerations, wrenches, out) ==
    /\ Len(joint_angles) = num_joints_
    /\ Len(joint_velocities) = num_joints_
    /\ Len(joint_accelerations) = num_joints_
    /\ Len(wrenches) = num_segments_
    /\ Len(out) = num_segments_

\* The length tests of getTorques (lines 165-189), all passed.
SizesMatch(joint_angles, joint_velocities, joint_accelerations, wrenches, out) ==
    /\ Len(joint_angles) = num_joints_
    /\ Len(joint_velocities) = num_joints_
    /\ Len(joint_accelerations) = num_joints_
    /\ Len(wrenches) = num_segments_
    /\ Len(out) = num_joints_

\* An engine call whose result is copied to the caller before the status is
\* looked at.
SolveTorquesCopyingFirst(joint_angles, joint_velocities, joint_accelerations, wrenches, out) ==
    The({[ret |-> r.status >= 0, torques |-> r.torques, calls |-> 1] :
         r \in {CartToJnt(chain_id_solver_[1], joint_angles, joint_velocities,
                          joint_accelerations, wrenches)}})

\* getTorques from line 191 on: the engine call and the copy to the caller.
SolveTorques(joint_angles, joint_velocities, joint_accelerations, wrenches, out) ==
    The({IF r.status < 0
         THEN [ret |-> FALSE, torques |-> out, calls |-> 1]
         ELSE [ret |-> TRUE, torques |-> r.torques, calls |-> 1] :
         r \in {CartToJnt(chain_id_solver_[1], joint_angles, joint_velocities,
                          joint_accelerations, wrenches)}})

\* DynamicsSolver::getTorques
getTorques(joint_angles, joint_velocities, joint_accelerations, wrenches, out) ==
    IF joint_model_group_ = NULL
    THEN [ret |-> FALSE, torques |-> out, calls |-> 0]
    ELSE IF ~SizesMatch(joint_angles, joint_velocities, joint_accelerations,
                        wrenches, out)
    THEN [ret |-> FALSE, torques |-> out, calls |-> 0]
    ELSE SolveTorques(joint_angles, joint_velocities, joint_accelerations,
                      wrenches, out)

\* The loop of lines 246-254: the first 1-based i in i..num_joints_ with
\* fabs(zero_torques[i]) >= max_torques_[i], or 0 when there is none.
RECURSIVE FirstSaturated(_, _)
FirstSaturated(i, zero_torques) ==
    IF i > num_joints_ THEN 0
    ELSE IF DGeq(Fabs(zero_torques[i]), max_torques_[i]) THEN i
    ELSE FirstSaturated(i + 1, zero_torques)

\* The payload a joint allows (line 273).
PayloadJoint(i, zero_torques, unit_torques) ==
    DMax(DDiv(DSub(max_torques_[i], zero_torques[i]),
              DSub(unit_torques[i], zero_torques[i])),
         DDiv(DSub(DNeg(max_torques_[i]), zero_torques[i]),
              DSub(unit_torques[i], zero_torques[i])))

\* The loop of lines 271-284 from joint i on: acc holds min_payload and
\* joint_saturated.
RECURSIVE MinPayloadLoop(_, _, _, _)
MinPayloadLoop(i, acc, zero_torques, unit_torques) ==
    IF i > num_joints_ THEN acc
    ELSE LET payload_joint == PayloadJoint(i, zero_torques, unit_torques)
         IN  MinPayloadLoop(i + 1,
                 IF DLess(payload_joint, acc.min_payload)
                 THEN [min_payload |-> payload_joint, joint_saturated |-> i - 1]
                 ELSE acc,
                 zero_torques, unit_torques)

\* The wrenches of a payload query: all zero but a force fz along z on the
\* last segment, rotated by tip_frame.inverse() * base_frame.
TipWrenches(st, fz) ==
    The({[i \in 1..num_segments_ |->
            IF i = num_segments_
            THEN [force |-> transformVector(transform, <<Dbl(0), Dbl(0), fz>>),
                  torque |-> transformVector(transform, ZeroWrench.torque)]
            ELSE ZeroWrench] :
         transform \in {Compose(Inverse(getFrameTransform(st, tip_name_)),
                                getFrameTransform(st, base_name_))}})

\* getMaxPayload from line 256 on: zero_torques are the gravity torques and no
\* joint is saturated by them; st2 is the robot state with the angles set.
MaxPayloadLoaded(st2, joint_angles, payload_out, joint_saturated_out, zero_torques) ==
    The({IF ~second.ret
         THEN [ret |-> FALSE, payload |-> payload_out,
               joint_saturated |-> joint_saturated_out, state |-> st2,
               calls |-> 1 + second.calls]
         ELSE The({[ret |-> TRUE,
                    payload |-> DDiv(acc.min_payload, gravity_),
                    joint_saturated |-> acc.joint_saturated, state |-> st2,
                    calls |-> 1 + second.calls] :
                    acc \in {MinPayloadLoop(1,
                                [min_payload |-> DBL_MAX,
                                 joint_saturated |-> joint_saturated_out],
                                zero_torques, second.torques)}}) :
         second \in {getTorques(joint_angles, Zeros(num_joints_),
                                Zeros(num_joints_), TipWrenches(st2, Dbl(1)),
                                [i \in 1..num_joints_ |-> Dbl(0)])}})

\* A getMaxPayload that sets the joint-group positions right after the
\* gravity-only engine call, before the loop over the saturated joints.
getMaxPayloadSettingFirst(st, joint_angles, payload_out, joint_saturated_out) ==
    IF joint_model_group_ = NULL \/ Len(joint_angles) # num_joints_
    THEN [ret |-> FALSE, payload |-> payload_out,
          joint_saturated |-> joint_saturated_out, state |-> st, calls |-> 0]
    ELSE
    The({IF ~first.ret
         THEN [ret |-> FALSE, payload |-> payload_out,
               joint_saturated |-> joint_saturated_out, state |-> st,
               calls |-> first.calls]
         ELSE The({IF i # 0
                   THEN [ret |-> TRUE, payload |-> Dbl(0),
                         joint_saturated |-> i - 1,
                         state |-> setJointGroupPositions(st, joint_angles),
                         calls |-> first.calls]
                   ELSE MaxPayloadLoaded(setJointGroupPositions(st, joint_angles),
                            joint_angles, payload_out, joint_saturated_out,
                            first.torques) :
                   i \in {FirstSaturated(1, first.torques)}}) :
         first \in {getTorques(joint_angles, Zeros(num_joints_),
                               Zeros(num_joints_),
                               [i \in 1..num_segments_ |-> ZeroWrench],
                               [i \in 1..num_joints_ |-> Dbl(0)])}})

\* DynamicsSolver::getMaxPayload
getMaxPayload(st, joint_angles, payload_out, joint_saturated_out) ==
    IF joint_model_group_ = NULL \/ Len(joint_angles) # num_joints_
    THEN [ret |-> FALSE, payload |-> payload_out,
          joint_saturated |-> joint_saturated_out, state |-> st, calls |-> 0]
    ELSE
    The({IF ~first.ret
         THEN [ret |-> FALSE, payload |-> payload_out,
               joint_saturated |-> joint_saturated_out, state |-> st,
               calls |-> first.calls]
         ELSE The({IF i # 0
                   THEN [ret |-> TRUE, payload |-> Dbl(0),
                         joint_saturated |-> i - 1, state |-> st,
                         calls |-> first.calls]
                   ELSE MaxPayloadLoaded(setJointGroupPositions(st, joint_angles),
                            joint_angles, payload_out, joint_saturated_out,
                            first.torques) :
                   i \in {FirstSaturated(1, first.torques)}}) :
         first \in {getTorques(joint_angles, Zeros(num_joints_),
                               Zeros(num_joints_),
                               [i \in 1..num_segments_ |-> ZeroWrench],
                               [i \in 1..num_joints_ |-> Dbl(0)])}})

\* A getPayloadTorques that reads the frames of the robot state as it finds
\* it and sets the joint-group positions afterwards.
getPayloadTorquesStaleFrames(st, joint_angles, payload_in, joint_torques) ==
    IF \/ joint_model_group_ = NULL
       \/ Len(joint_angles) # num_joints_
       \/ Len(joint_torques) # num_joints_
    THEN [ret |-> FALSE, torques |-> joint_torques, state |-> st, calls |-> 0]
    ELSE
    The({[ret |-> r.ret, torques |-> r.torques, state |-> st2,
          calls |-> r.calls] :
         st2 \in {setJointGroupPositions(st, joint_angles)},
         r \in {getTorques(joint_angles, Zeros(num_joints_), Zeros(num_joints_),
                    TipWrenches(st, DMul(payload_in, gravity_)),
                    joint_torques)}})

\* DynamicsSolver::getPayloadTorques
getPayloadTorques(st, joint_angles, payload_in, joint_torques) ==
    IF \/ joint_model_group_ = NULL
       \/ Len(joint_angles) # num_joints_
       \/ Len(joint_torques) # num_joints_
    THEN [ret |-> FALSE, torques |-> joint_torques, state |-> st, calls |-> 0]
    ELSE
    The({[ret |-> r.ret, torques |-> r.torques, state |-> st2,
          calls |-> r.calls] :
         st2 \in {setJointGroupPositions(st, joint_angles)},
         r \in {getTorques(joint_angles, Zeros(num_joints_), Zeros(num_joints_),
                    TipWrenches(setJointGroupPositions(st, joint_angles),
                                DMul(payload_in, gravity_)),
                    joint_torques)}})

\* DynamicsSolver::getMaxTorques
getMaxTorques == max_torques_

---------------------------------------------------------------------------
(* The callers: the arguments the queries are called with.                 *)

AngleValues == {0, 1}

\* The joint-angle vectors a caller passes: every vector of the length the
\* solver holds as num_joints_, and the zero vectors one shorter and one
\* longer.
AngleVectors ==
    [1..num_joints_ -> AngleValues]
    \cup {Zeros(num_joints_ + 1)}
    \cup (IF num_joints_ > 0 THEN {Zeros(num_joints_ - 1)} ELSE {})

\* What the caller's output variables hold before a query.
CallerTorque == Fin(-7, 2)

CallerPayload == Fin(-5, 2)

CallerJoint == MaxGroupLen + 1

Buffer(n) == [i \in 1..n |-> CallerTorque]

\* n wrenches, all zero but a force fz along z on the last.
Wrenches(n, fz) ==
    [i \in 1..n |-> IF i = n THEN [ZeroWrench EXCEPT !.force = Vec3(0, 0, fz)]
                    ELSE ZeroWrench]

\* The ways a getTorques call is made: how much longer than expected the
\* angles, velocities, accelerations, wrenches and torque buffer are, and the
\* force on the tip.
TorqueCalls ==
    {<<0, 0, 0, 0, 0, 0>>, <<0, 0, 0, 0, 0, 1>>, <<1, 0, 0, 0, 0, 0>>,
     <<0, 1, 0, 0, 0, 0>>, <<0, 0, 1, 0, 0, 0>>, <<0, 0, 0, 1, 0, 0>>,
     <<0, 0, 0, 0, 1, 0>>}

\* The argument lists of getTorques: every angle vector of the expected length
\* without a tip force, and each way of calling at zero angles.
GetTorquesArgs ==
    {[joint_angles |-> IF c[2][1] = 0 THEN c[1] ELSE Zeros(num_joints_ + 1),
      joint_velocities |-> Zeros(num_joints_ + c[2][2]),
      joint_accelerations |-> Zeros(num_joints_ + c[2][3]),
      wrenches |-> Wrenches(num_segments_ + c[2][4], c[2][6]),
      torques |-> Buffer(num_joints_ + c[2][5])] :
        c \in {d \in [1..num_joints_ -> AngleValues] \X TorqueCalls :
                 \/ d[2] = <<0, 0, 0, 0, 0, 0>>
                 \/ d[1] = Zeros(num_joints_)}}

NoCall ==
    [op |-> "none", joint_angles |-> <<>>, joint_velocities |-> <<>>,
     joint_accelerations |-> <<>>, wrenches |-> <<>>, torques |-> <<>>,
     payload |-> CallerPayload, max |-> <<>>, state |-> <<>>]

---------------------------------------------------------------------------
(* The state machine.                                                      *)

Init ==
    \E m \in RobotModels, g \in GravityVectors, u \in 0..MaxGroupLen :
        /\ g = <<0, 0, 0>> => m.fault = "none"
        /\ \E s \in {DynamicsSolver(m, g, u)} :
               /\ robot_model_ = s.robot_model_
               /\ joint_model_group_ = s.joint_model_group_
               /\ kdl_chain_ = s.kdl_chain_
               /\ num_joints_ = s.num_joints_
               /\ num_segments_ = s.num_segments_
               /\ state_ = s.state_
               /\ max_torques_ = s.max_torques_
               /\ gravity_ = s.gravity_
               /\ chain_id_solver_ = s.chain_id_solver_
               /\ call = NoCall
               /\ ret = FALSE
               /\ torques = <<>>
               /\ payload = CallerPayload
               /\ joint_saturated = CallerJoint
               /\ engine_calls = 0
               /\ limits = <<>>

\* A caller runs getTorques.
GetTorques ==
    \E args \in GetTorquesArgs :
        \E r \in {getTorques(args.joint_angles, args.joint_velocities,
                             args.joint_accelerations, args.wrenches,
                             args.torques)} :
            /\ call' = [NoCall EXCEPT !.op = "getTorques", !.state = state_,
                            !.joint_angles = args.joint_angles,
                            !.joint_velocities = args.joint_velocities,
                            !.joint_accelerations = args.joint_accelerations,
                            !.wrenches = args.wrenches,
                            !.torques = args.torques]
            /\ ret' = r.ret
            /\ torques' = r.torques
            /\ payload' = CallerPayload
            /\ joint_saturated' = CallerJoint
            /\ engine_calls' = r.calls
            /\ limits' = <<>>
            /\ UNCHANGED <<solver, state_>>

\* A caller runs getMaxPayload.
GetMaxPayload ==
    \E a \in AngleVectors :
        \E r \in {getMaxPayload(state_, a, CallerPayload, CallerJoint)} :
            /\ call' = [NoCall EXCEPT !.op = "getMaxPayload", !.state = state_,
                            !.joint_angles = a]
            /\ ret' = r.ret
            /\ torques' = <<>>
            /\ payload' = r.payload
            /\ joint_saturated' = r.joint_saturated
            /\ state_' = r.state
            /\ engine_calls' = r.calls
            /\ limits' = <<>>
            /\ UNCHANGED solver

\* The payloads a caller asks the torques of at angles a: one unit of mass, or
\* the mass the getMaxPayload call just before returned for these angles.
PayloadInputs(a) ==
    {[payload |-> Dbl(1), max |-> <<>>]}
    \cup (IF call.op = "getMaxPayload" /\ ret /\ call.joint_angles = a
          THEN {[payload |-> payload,
                 max |-> <<[joint_angles |-> call.joint_angles,
                            joint_saturated |-> joint_saturated]>>]}
          ELSE {})

\* A caller runs getPayloadTorques.
GetPayloadTorques ==
    \E a \in AngleVectors :
    \E x \in {y \in {0, 1} : y = 0 \/ a = Zeros(num_joints_)} :
    \E p \in PayloadInputs(a) :
        \E r \in {getPayloadTorques(state_, a, p.payload, Buffer(Len(a) + x))} :
            /\ call' = [NoCall EXCEPT !.op = "getPayloadTorques", !.state = state_,
                            !.joint_angles = a, !.payload = p.payload,
                            !.max = p.max, !.torques = Buffer(Len(a) + x)]
            /\ ret' = r.ret
            /\ torques' = r.torques
            /\ payload' = CallerPayload
            /\ joint_saturated' = CallerJoint
            /\ state_' = r.state
            /\ engine_calls' = r.calls
            /\ limits' = <<>>
            /\ UNCHANGED solver

\* A caller runs getMaxTorques.
GetMaxTorques ==
    /\ call' = [NoCall EXCEPT !.op = "getMaxTorques", !.state = state_]
    /\ limits' = <<getMaxTorques>>
    /\ ret' = FALSE
    /\ torques' = <<>>
    /\ payload' = CallerPayload
    /\ joint_saturated' = CallerJoint
    /\ engine_calls' = 0
    /\ UNCHANGED <<solver, state_>>

Next == GetTorques \/ GetMaxPayload \/ GetPayloadTorques \/ GetMaxTorques

Spec == Init /\ [][Next]_vars

---------------------------------------------------------------------------
(* The vocabulary of the properties.                                       *)

Queries == {"getTorques", "getMaxPayload", "getPayloadTorques"}

\* The test every query starts with (lines 159, 228, 293), passed.
Valid == joint_model_group_ # NULL

\* The constructor's reasons to reject a robot model (lines 80-125).
Rejected(robot_model) ==
    \/ robot_model.group = <<>>
    \/ ~robot_model.group[1].isChain
    \/ robot_model.group[1].mimic
    \/ ~robot_model.group[1].rootHasParent
    \/ ~robot_model.treeOk
    \/ ~robot_model.chainOk

\* The torque limit of the i-th movable joint of the chain.
Limit(i) == EffortOf(Movable(kdl_chain_)[i])

\* The robot state with the joint-group positions at the given angles.
StateAt(joint_angles) ==
    setJointGroupPositions(DefaultState(num_joints_), joint_angles)

\* The engine's answer to the gravity-only call of a payload query.
GravityCall(joint_angles) ==
    CartToJnt(chain_id_solver_[1], joint_angles, Zeros(num_joints_),
              Zeros(num_joints_), [i \in 1..num_segments_ |-> ZeroWrench])

\* The engine's answer to the call with a force fz along the base z axis on
\* the tip.
LoadedCall(joint_angles, fz) ==
    CartToJnt(chain_id_solver_[1], joint_angles, Zeros(num_joints_),
              Zeros(num_joints_), TipWrenches(StateAt(joint_angles), fz))

\* The joints whose gravity-only torque reaches their limit.
SaturatedJoints(joint_angles) ==
    {i \in 1..num_joints_ :
        DGeq(Fabs(GravityCall(joint_angles).torques[i]), Limit(i))}

\* The payload capacity of joint i in force units: the larger of the two
\* forces that bring its torque to +limit and to -limit.
Capacity(i, zero, unit) ==
    DMax(DDiv(DSub(Limit(i), zero[i]), DSub(unit[i], zero[i])),
         DDiv(DSub(DNeg(Limit(i)), zero[i]), DSub(unit[i], zero[i])))

\* The first joint of the least capacity.
MostConstraining(zero, unit) ==
    CHOOSE i \in 1..num_joints_ :
        \A k \in 1..num_joints_ :
            /\ ~DLess(Capacity(k, zero, unit), Capacity(i, zero, unit))
            /\ k < i => DLess(Capacity(i, zero, unit), Capacity(k, zero, unit))

\* The latest query was a payload query with angles of the right length.
PayloadCallSized(op) ==
    /\ Valid
    /\ call.op = op
    /\ Len(call.joint_angles) = num_joints_

---------------------------------------------------------------------------
(* C1.                                                                     *)

\* C1: when the constructor rejected the robot model (unknown group, not a
\* chain, mimic joint, root joint without parent link, tree or chain not
\* built), the solver is invalid, the latest getTorques, getMaxPayload or
\* getPayloadTorques call returned false whatever the lengths of its
\* vectors, and getMaxTorques() is and returned the empty vector.
RejectedConstructionIsInvalid ==
    Rejected(robot_model_) =>
        /\ ~Valid
        /\ getMaxTorques = <<>>
        /\ call.op \in Queries => ~ret
        /\ limits # <<>> => limits[1] = <<>>

\* A rejected solver was asked for torques with vectors of exactly the
\* lengths it holds as joint and segment counts.
RejectedSolverQueried ==
    /\ Rejected(robot_model_)
    /\ call.op = "getTorques"
    /\ num_joints_ > 0
    /\ Len(call.joint_angles) = num_joints_
    /\ Len(call.joint_velocities) = num_joints_
    /\ Len(call.joint_accelerations) = num_joints_
    /\ Len(call.wrenches) = num_segments_
    /\ Len(call.torques) = num_joints_
    /\ ~ret

---------------------------------------------------------------------------
(* C2.                                                                     *)

\* C2: when the latest getTorques, getMaxPayload or getPayloadTorques call
\* returned false, the caller's torque buffer, payload and saturated-joint
\* variables hold what they held when the call was made.
FailedCallKeepsOutputs ==
    call.op \in Queries /\ ~ret =>
        /\ call.op # "getMaxPayload" => torques = call.torques
        /\ payload = CallerPayload
        /\ joint_saturated = CallerJoint

\* getMaxPayload failed in its second engine call.
SecondEngineCallFailed ==
    /\ call.op = "getMaxPayload"
    /\ ~ret
    /\ engine_calls = 2

---------------------------------------------------------------------------
(* C3.                                                                     *)

\* C3: the solver is valid exactly when the constructor did not reject the
\* robot model, whatever queries were made since; an invalid solver's latest
\* call did not return true; and on a valid solver the latest call returned
\* true if its vectors had the right lengths and the engine succeeds on it.
ValidityFixedAtConstruction ==
    /\ Valid <=> ~Rejected(robot_model_)
    /\ ~Valid => ~ret
    /\ ( /\ Valid
         /\ call.op = "getTorques"
         /\ Len(call.joint_angles) = num_joints_
         /\ Len(call.joint_velocities) = num_joints_
         /\ Len(call.joint_accelerations) = num_joints_
         /\ Len(call.wrenches) = num_segments_
         /\ Len(call.torques) = num_joints_
         /\ CartToJnt(chain_id_solver_[1], call.joint_angles,
                      call.joint_velocities, call.joint_accelerations,
                      call.wrenches).status >= 0 )
       => ret
    /\ ( /\ PayloadCallSized("getPayloadTorques")
         /\ Len(call.torques) = num_joints_
         /\ LoadedCall(call.joint_angles,
                       DMul(call.payload, gravity_)).status >= 0 )
       => ret
    /\ ( /\ PayloadCallSized("getMaxPayload")
         /\ GravityCall(call.joint_angles).status >= 0
         /\ LoadedCall(call.joint_angles, Dbl(1)).status >= 0 )
       => ret

\* getTorques returned true on a solver whose engine fails at the
\* configurations with a first angle of 1 and whose cached robot state holds
\* such a configuration: an earlier getPayloadTorques call set it and failed
\* in the engine.
SucceededAfterEngineFailure ==
    /\ Valid
    /\ chain_id_solver_[1].fault = "config"
    /\ num_joints_ > 0
    /\ state_[1].positions[1] = 1
    /\ call.op = "getTorques"
    /\ ret

---------------------------------------------------------------------------
(* C4.                                                                     *)

\* C4: on a valid solver the vector getMaxTorques() returned has one entry
\* per movable joint of the chain (num_joints_ entries), entry i the limit of
\* the i-th movable joint, fixed joints in the group or not.
MaxTorquesParallelToMovableJoints ==
    Valid /\ limits # <<>> =>
        /\ Len(limits[1]) = num_joints_
        /\ \A i \in 1..num_joints_ : limits[1][i] = Limit(i)

---------------------------------------------------------------------------
(* C5.                                                                     *)

\* C5: when getMaxPayload was called on a valid solver with angles of the
\* right length and the gravity-only torque of some joint i reaches limit[i],
\* it returned true with payload 0.0 and the index of the first such joint,
\* and made one engine call.
GravitySaturationReported ==
    ( /\ PayloadCallSized("getMaxPayload")
      /\ GravityCall(call.joint_angles).status >= 0
      /\ SaturatedJoints(call.joint_angles) # {} )
    => /\ ret
       /\ payload = Dbl(0)
       /\ \A i \in SaturatedJoints(call.joint_angles) : joint_saturated <= i - 1
       /\ joint_saturated + 1 \in SaturatedJoints(call.joint_angles)
       /\ engine_calls = 1

---------------------------------------------------------------------------
(* C6.                                                                     *)

\* C6: when getPayloadTorques was called with the mass getMaxPayload had
\* just returned for the same angles, at a configuration where no joint is
\* saturated by gravity alone, it returned true and torques with the joint
\* reported as saturated at +limit or -limit and every other joint within
\* its limits.
MaxPayloadSaturatesReportedJoint ==
    ( /\ PayloadCallSized("getPayloadTorques")
      /\ Len(call.torques) = num_joints_
      /\ call.max # <<>>
      /\ SaturatedJoints(call.joint_angles) = {} )
    => /\ ret
       /\ call.max[1].joint_saturated + 1 \in 1..num_joints_
       /\ Fabs(torques[call.max[1].joint_saturated + 1])
              = Limit(call.max[1].joint_saturated + 1)
       /\ \A i \in 1..num_joints_ : ~DLess(Limit(i), Fabs(torques[i]))

---------------------------------------------------------------------------
(* C7.                                                                     *)

\* C7: the flag and the outputs of the latest getTorques, getMaxPayload or
\* getPayloadTorques call are those the same call gives on the solver as
\* constructed, whatever calls were made before it.
QueriesArePure ==
    /\ call.op = "getTorques" =>
           \E r \in {getTorques(call.joint_angles, call.joint_velocities,
                                call.joint_accelerations, call.wrenches,
                                call.torques)} :
               ret = r.ret /\ torques = r.torques
    /\ call.op = "getMaxPayload" =>
           \E r \in {getMaxPayload(DefaultState(num_joints_), call.joint_angles,
                                   CallerPayload, CallerJoint)} :
               /\ ret = r.ret
               /\ payload = r.payload
               /\ joint_saturated = r.joint_saturated
    /\ call.op = "getPayloadTorques" =>
           \E r \in {getPayloadTorques(DefaultState(num_joints_),
                                       call.joint_angles, call.payload,
                                       call.torques)} :
               ret = r.ret /\ torques = r.torques

\* getPayloadTorques returned the torques of a payload under gravity when
\* earlier payload calls had left the cached robot state at other angles than
\* the constructor's and than this call's.
PayloadTorquesAfterOtherAngles ==
    /\ PayloadCallSized("getPayloadTorques")
    /\ ret
    /\ call.state # DefaultState(num_joints_)
    /\ call.state[1].positions # call.joint_angles
    /\ ~IsZero(DMul(call.payload, gravity_))

---------------------------------------------------------------------------
(* C8.                                                                     *)

\* C8: when getMaxPayload was called where no joint is saturated by gravity
\* alone and both engine calls succeed, it returned the least capacity over
\* the joints divided by the gravity norm, and the index of the first joint
\* of that capacity.
MaxPayloadIsLeastCapacity ==
    ( /\ PayloadCallSized("getMaxPayload")
      /\ num_joints_ > 0
      /\ GravityCall(call.joint_angles).status >= 0
      /\ LoadedCall(call.joint_angles, Dbl(1)).status >= 0
      /\ SaturatedJoints(call.joint_angles) = {} )
    => \E zero \in {GravityCall(call.joint_angles).torques},
          unit \in {LoadedCall(call.joint_angles, Dbl(1)).torques} :
           \E j \in {MostConstraining(zero, unit)} :
               /\ ret
               /\ payload = DDiv(Capacity(j, zero, unit), gravity_)
               /\ joint_saturated = j - 1

---------------------------------------------------------------------------
(* C9.                                                                     *)

\* C9 as stated, read for the calls that return true only: on a valid solver
\* a getMaxPayload or getPayloadTorques call leaves the cached robot state's
\* joint-group positions at the call's angles, and a getTorques call leaves
\* the cached robot state as it was.
PayloadCallsOverwriteState ==
    Valid /\ ret =>
        /\ call.op \in {"getMaxPayload", "getPayloadTorques"} =>
               state_[1].positions = call.joint_angles
        /\ call.op = "getTorques" => state_ = call.state

\* C9, amended: on a valid solver getPayloadTorques leaves the positions at
\* the call's angles when the angles and the torque buffer have the right
\* lengths; getMaxPayload does when the angles have the right length, the
\* gravity-only engine call succeeds and no joint's gravity-only torque
\* reaches the limit the solver holds for it; every other call of the two,
\* and every getTorques and getMaxTorques call, leaves the state as it was.
StateOverwrittenPastTheChecks ==
    Valid =>
        /\ call.op = "getPayloadTorques" =>
               IF Len(call.joint_angles) = num_joints_
                  /\ Len(call.torques) = num_joints_
               THEN state_[1].positions = call.joint_angles
               ELSE state_ = call.state
        /\ call.op = "getMaxPayload" =>
               IF /\ Len(call.joint_angles) = num_joints_
                  /\ GravityCall(call.joint_angles).status >= 0
                  /\ \A i \in 1..num_joints_ :
                         ~DGeq(Fabs(GravityCall(call.joint_angles).torques[i]),
                               getMaxTorques[i])
               THEN state_[1].positions = call.joint_angles
               ELSE state_ = call.state
        /\ call.op \in {"getTorques", "getMaxTorques"} => state_ = call.state

\* getMaxPayload returned true, for a joint saturated by gravity alone, and
\* the cached robot state holds other angles than the call's.
SaturatedCallKeptState ==
    /\ PayloadCallSized("getMaxPayload")
    /\ ret
    /\ engine_calls = 1
    /\ state_[1].positions # call.joint_angles

---------------------------------------------------------------------------
(* C10.                                                                    *)

\* C10: when getMaxPayload returned true, the saturated-joint variable holds
\* an index in 0 .. num_joints_ - 1 and the payload variable a finite value.
MaxPayloadOutputsAssigned ==
    call.op = "getMaxPayload" /\ ret =>
        /\ joint_saturated \in 0..(num_joints_ - 1)
        /\ IsFinite(payload)

====
